---- MODULE Spec2Model ----
(***************************************************************************)
(* Model of src/lib/acceptOffer.ts: the proxy-approval check               *)
(* (registerUserProxy, checkProxyApproval, isProxyApproved), the order     *)
(* fetch (getMatchingOrders) and the two top-level operations acceptOffer  *)
(* and listTokenForSell, run against a collection contract, the proxy      *)
(* registry, the exchange and the marketplace HTTP API.                    *)
(*                                                                         *)
(* Every `await` of the source is one step of a call.  A chain read, a     *)
(* transaction submission, the wait for mining and an HTTP request each    *)
(* either succeed or throw; a throw is handled by the try/catch that       *)
(* encloses the statement in the source.                                   *)
(***************************************************************************)
EXTENDS Naturals, Sequences, FiniteSets, TLC

\* ------------------------------------------------------------------------
\* Bounds and value sets
\* ------------------------------------------------------------------------

\* number of tokens of the collection
NumTokens == 2

\* token ids are strings in the source (tokenId: string)
Tokens == {ToString(i) : i \in 1..NumTokens}

\* the JavaScript values undefined and null
Undefined == "undefined"
Null == "null"

\* ethers.constants.AddressZero (no letters: the same in every casing)
AddressZero == "0x0"

\* accounts as the chain stores them (lower-case hex)
Accounts == {"s1", "s2"}

\* the proxy the registry creates for an account
ProxyOf(a) == IF a = "s1" THEN "p1" ELSE "p2"

\* String.prototype.toLowerCase on the addresses of the model
toLowerCase(a) ==
    CASE a = "S1" -> "s1"
      [] a = "S2" -> "s2"
      [] a = "P1" -> "p1"
      [] a = "P2" -> "p2"
      [] OTHER -> a

\* the checksummed (mixed-case) form in which ethers returns an address
getAddress(a) ==
    CASE a = "s1" -> "S1"
      [] a = "s2" -> "S2"
      [] a = "p1" -> "P1"
      [] a = "p2" -> "P2"
      [] OTHER -> a

\* a Signer object is identified with the string its getAddress() resolves
\* to: checksummed ("S1", "S2") or lower-case ("s1")
Signers == {"S1", "s1", "S2"}

\* the address of the collection contract passed as query.contract
Collection == "collection"

\* the two top-level operations
Ops == {"acceptOffer", "listTokenForSell"}

\* the concurrent invocations of the workflow
Calls == {"a", "b"}

\* outcomes of GET /orders/fill and GET /orders/build followed by res.json()
\* and the SDK's order construction
FetchOutcomes == {"netfail", "badjson", "noparams", "sdkfail", "ok"}

\* outcomes of POST /orders: the request throws, or completes with a
\* success or a non-success response
PostOutcomes == {"netfail", "accepted", "rejected"}

VARIABLES
    \* chain state
    ownerOf,            \* collection: token -> account
    getApproved,        \* collection: token -> approved address
    isApprovedForAll,   \* collection: set of <<owner, operator>>
    proxies,            \* registry: account -> proxy address
    \* per call
    op,                 \* which top-level operation the call runs
    signer,             \* the signer argument
    query,              \* the query argument: [tokenId, contract]
    pc,                 \* position of the call
    local,              \* values the call has read or computed
    tx,                 \* status of the transactions the call submitted
    trace,              \* external calls attempted, in order
    faults,             \* number of failures of the node, wallet or API
    result,             \* how the call ended
    chain0              \* the chain state when the calls started

chainVars == <<ownerOf, getApproved, isApprovedForAll, proxies>>
inputVars == <<op, signer, query, chain0>>
vars == <<ownerOf, getApproved, isApprovedForAll, proxies, op, signer, query,
          pc, local, tx, trace, faults, result, chain0>>

\* ------------------------------------------------------------------------
\* Initial states
\* ------------------------------------------------------------------------

NoLocal == [owner |-> "none", proxy0 |-> "none", userProxy |-> "none",
            approvedForAll |-> "none", approvedAddress |-> "none",
            proxyApproved |-> "none", orders |-> "none", fill |-> "none",
            build |-> "none", signed |-> FALSE, post |-> "none",
            posted |-> <<>>]

NoTx == [registerProxy |-> "none", setApprovalForAll |-> "none",
         match |-> "none"]

\* A proxy address exists only once the registry created it, so only a
\* registered proxy can already hold an approval.  query.contract is any
\* contract with the four functions of lines 150-153: getApproved(tokenId)
\* may be any account, the token's owner included.
InitChain ==
    /\ ownerOf \in [Tokens -> Accounts]
    /\ proxies \in [Accounts -> {AddressZero, "p1", "p2"}]
    /\ \A a \in Accounts : proxies[a] \in {AddressZero, ProxyOf(a)}
    /\ getApproved \in [Tokens -> {AddressZero} \cup Accounts \cup {"p1", "p2"}]
    /\ \A t \in Tokens : \A a \in Accounts :
          getApproved[t] = ProxyOf(a) => proxies[a] = ProxyOf(a)
    /\ isApprovedForAll \in SUBSET {<<a, ProxyOf(a)>> : a \in Accounts}
    /\ \A a \in Accounts :
          <<a, ProxyOf(a)>> \in isApprovedForAll => proxies[a] = ProxyOf(a)
    /\ chain0 = [ownerOf |-> ownerOf, getApproved |-> getApproved,
                 isApprovedForAll |-> isApprovedForAll, proxies |-> proxies]

\* the calls in `active` are invoked with any arguments, the others never run
InitCalls(active) ==
    /\ op \in [Calls -> Ops]
    /\ signer \in [Calls -> Signers \cup {Undefined}]
    /\ query \in [Calls -> [tokenId : Tokens \cup {Undefined},
                            contract : {Collection, Undefined}]]
    /\ \A p \in Calls \ active :
          /\ op[p] = "acceptOffer"
          /\ signer[p] = Undefined
          /\ query[p] = [tokenId |-> Undefined, contract |-> Undefined]
    /\ pc = [p \in Calls |-> IF p \in active THEN "start" ELSE "off"]
    /\ local = [p \in Calls |-> NoLocal]
    /\ tx = [p \in Calls |-> NoTx]
    /\ trace = [p \in Calls |-> <<>>]
    /\ faults = [p \in Calls |-> 0]
    /\ result = [p \in Calls |-> "pending"]

\* lines 202 and 245 let the call through
PassesArgumentTest(p) ==
    /\ signer[p] # Undefined
    /\ query[p].contract # Undefined
    /\ query[p].tokenId # Undefined

Init == InitChain /\ InitCalls({"a"})

\* ------------------------------------------------------------------------
\* Bookkeeping shared by the steps
\* ------------------------------------------------------------------------

\* the call moves to position `to` with locals `loc`; `res` is its result
Goto(p, to, loc, res) ==
    /\ pc' = [pc EXCEPT ![p] = to]
    /\ local' = [local EXCEPT ![p] = loc]
    /\ result' = [result EXCEPT ![p] = res]

\* the call attempted the external call `name`, which threw or not
Called(p, name, threw) ==
    /\ trace' = [trace EXCEPT ![p] = Append(@, name)]
    /\ faults' = [faults EXCEPT ![p] = IF threw THEN @ + 1 ELSE @]

\* lower-case account of the call's signer (msg.sender of its transactions)
Sender(p) == toLowerCase(signer[p])

\* ------------------------------------------------------------------------
\* Decisions of the source
\* ------------------------------------------------------------------------

\* mutant of acceptOfferInvalid: the signer test is left out
acceptOfferInvalid_noSigner(p) == query[p].contract = Undefined

\* line 202: if (!signer || !query.contract)
acceptOfferInvalid(p) ==
    signer[p] = Undefined \/ query[p].contract = Undefined

\* mutant of listTokenForSellInvalid: the tokenId test is left out
listTokenForSellInvalid_noTokenId(p) ==
    signer[p] = Undefined \/ query[p].contract = Undefined

\* line 245: if (!signer || !query.tokenId || !query.contract)
listTokenForSellInvalid(p) ==
    \/ signer[p] = Undefined
    \/ query[p].tokenId = Undefined
    \/ query[p].contract = Undefined

\* mutant of notTokenOwner: === written for !==
notTokenOwner_inverted(owner, signerAddress) ==
    toLowerCase(owner) = toLowerCase(signerAddress)

\* line 27: owner.toLowerCase() !== signerAddress.toLowerCase()
notTokenOwner(owner, signerAddress) ==
    toLowerCase(owner) # toLowerCase(signerAddress)

\* mutant of noProxy: !== written for ===
noProxy_inverted(userProxy) == userProxy # AddressZero

\* mutant of noProxy: the test is left out and a proxy is always registered
noProxy_always(userProxy) == TRUE

\* line 37: userProxy === ethers.constants.AddressZero
noProxy(userProxy) == userProxy = AddressZero

\* mutant of tokenApproved: !== written for ===
tokenApproved_inverted(approvedAddress, signerAddress, userProxy) ==
    toLowerCase(approvedAddress) # toLowerCase(signerAddress)

\* line 80: approvedAddress.toLowerCase() === signerAddress.toLowerCase()
tokenApproved(approvedAddress, signerAddress, userProxy) ==
    toLowerCase(approvedAddress) = toLowerCase(signerAddress)

\* mutant of missingParams: the params test is left out
missingParams_never(outcome) == FALSE

\* lines 121 and 269: if (!order?.params)
missingParams(outcome) == outcome = "noparams"

\* ------------------------------------------------------------------------
\* Returns of the helper functions to their callers
\* ------------------------------------------------------------------------

\* mutant of registerUserProxyReturns: a null proxy makes the check start
\* over
registerUserProxyReturns_retry(p, loc, v) ==
    IF v = Null
    THEN Goto(p, "rup_ownerOf", loc, "pending")
    ELSE Goto(p, "cpa_isApprovedForAll", [loc EXCEPT !.userProxy = v],
              "pending")

\* lines 168-174: registerUserProxy returned v to isProxyApproved, which
\* passes it to checkProxyApproval whatever it is
registerUserProxyReturns(p, loc, v) ==
    Goto(p, "cpa_isApprovedForAll", [loc EXCEPT !.userProxy = v], "pending")

\* the step of the top-level operation that follows a successful check
\* (line 216 for acceptOffer, line 264 for listTokenForSell)
afterApproval(p) ==
    IF op[p] = "acceptOffer" THEN "gmo_fetch" ELSE "lts_build"

\* mutant of checkProxyApprovalReturns: the operation goes on whatever the
\* check returned
checkProxyApprovalReturns_ignored(p, loc, b) ==
    Goto(p, afterApproval(p),
         [loc EXCEPT !.proxyApproved = IF b THEN "true" ELSE "false"],
         "pending")

\* lines 174-180, 215-232, 258-300: checkProxyApproval returned b, which
\* isProxyApproved returns to the top-level operation
checkProxyApprovalReturns(p, loc, b) ==
    IF b
    THEN Goto(p, afterApproval(p), [loc EXCEPT !.proxyApproved = "true"],
              "pending")
    ELSE Goto(p, "done", [loc EXCEPT !.proxyApproved = "false"], "false")

\* ------------------------------------------------------------------------
\* registerUserProxy (lines 15-60)
\* ------------------------------------------------------------------------

\* lines 23-30: ownerOf(tokenId), getAddress(), the ownership test.  The
\* read throws when the node fails or the argument is no token id; the
\* catch of line 56 turns a throw into null.
rup_ownerOf(p) ==
    /\ pc[p] = "rup_ownerOf"
    /\ \E ok \in BOOLEAN :
          LET t == query[p].tokenId
              threw == ~ok \/ t \notin Tokens
              owner == getAddress(ownerOf[t])
          IN  /\ Called(p, "ownerOf", ~ok)
              /\ IF threw
                 THEN registerUserProxyReturns(p, local[p], Null)
                 ELSE IF notTokenOwner(owner, signer[p])
                      THEN registerUserProxyReturns(
                               p, [local[p] EXCEPT !.owner = owner], Null)
                      ELSE Goto(p, "rup_proxies",
                                [local[p] EXCEPT !.owner = owner], "pending")
    /\ UNCHANGED <<chainVars, inputVars, tx>>

\* mutant of rup_proxies: the proxy of one fixed account is looked up
\* instead of the signer's
rup_proxies_shared(p) ==
    /\ pc[p] = "rup_proxies"
    /\ \E ok \in BOOLEAN :
          LET userProxy == getAddress(proxies["s1"])
              loc == [local[p] EXCEPT !.proxy0 = userProxy]
          IN  /\ Called(p, "proxies", ~ok)
              /\ IF ~ok
                 THEN registerUserProxyReturns(p, local[p], Null)
                 ELSE IF noProxy(userProxy)
                      THEN Goto(p, "rup_registerProxy", loc, "pending")
                      ELSE registerUserProxyReturns(p, loc, userProxy)
    /\ UNCHANGED <<chainVars, inputVars, tx>>

\* lines 33-37 and 52-55: proxies(signerAddress), the zero-address test
rup_proxies(p) ==
    /\ pc[p] = "rup_proxies"
    /\ \E ok \in BOOLEAN :
          LET userProxy == getAddress(proxies[Sender(p)])
              loc == [local[p] EXCEPT !.proxy0 = userProxy]
          IN  /\ Called(p, "proxies", ~ok)
              /\ IF ~ok
                 THEN registerUserProxyReturns(p, local[p], Null)
                 ELSE IF noProxy(userProxy)
                      THEN Goto(p, "rup_registerProxy", loc, "pending")
                      ELSE registerUserProxyReturns(p, loc, userProxy)
    /\ UNCHANGED <<chainVars, inputVars, tx>>

\* lines 39-41: registerProxy() is submitted, or the submission throws
rup_registerProxy(p) ==
    /\ pc[p] = "rup_registerProxy"
    /\ \E ok \in BOOLEAN :
          /\ Called(p, "registerProxy", ~ok)
          /\ IF ok
             THEN /\ tx' = [tx EXCEPT ![p].registerProxy = "pending"]
                  /\ Goto(p, "rup_wait", local[p], "pending")
             ELSE /\ UNCHANGED tx
                  /\ registerUserProxyReturns(p, local[p], Null)
    /\ UNCHANGED <<chainVars, inputVars>>

\* mutant of rup_wait: the wait gives up although the transaction is
\* neither mined nor failed
rup_wait_timeout(p) ==
    /\ pc[p] = "rup_wait"
    /\ \/ /\ proxies[Sender(p)] = AddressZero
          /\ proxies' = [proxies EXCEPT ![Sender(p)] = ProxyOf(Sender(p))]
          /\ tx' = [tx EXCEPT ![p].registerProxy = "mined"]
          /\ Goto(p, "rup_proxies2", local[p], "pending")
       \/ /\ UNCHANGED <<proxies, tx>>
          /\ registerUserProxyReturns(p, local[p], Null)
    /\ UNCHANGED <<ownerOf, getApproved, isApprovedForAll, inputVars, trace,
                   faults>>

\* line 44: wait().  The registry creates the proxy when the sender has
\* none and reverts otherwise; wait() throws on a failed transaction.  A
\* revert the chain state forces is no fault of the environment.
rup_wait(p) ==
    /\ pc[p] = "rup_wait"
    /\ \/ /\ proxies[Sender(p)] = AddressZero
          /\ proxies' = [proxies EXCEPT ![Sender(p)] = ProxyOf(Sender(p))]
          /\ tx' = [tx EXCEPT ![p].registerProxy = "mined"]
          /\ Goto(p, "rup_proxies2", local[p], "pending")
          /\ UNCHANGED faults
       \/ /\ UNCHANGED proxies
          /\ tx' = [tx EXCEPT ![p].registerProxy = "failed"]
          /\ registerUserProxyReturns(p, local[p], Null)
          /\ faults' = [faults EXCEPT ![p] =
                 IF proxies[Sender(p)] = AddressZero THEN @ + 1 ELSE @]
    /\ UNCHANGED <<ownerOf, getApproved, isApprovedForAll, inputVars, trace>>

\* lines 47-51: proxies(signerAddress) is read again and returned
rup_proxies2(p) ==
    /\ pc[p] = "rup_proxies2"
    /\ \E ok \in BOOLEAN :
          /\ Called(p, "proxies", ~ok)
          /\ registerUserProxyReturns(
                 p, local[p],
                 IF ok THEN getAddress(proxies[Sender(p)]) ELSE Null)
    /\ UNCHANGED <<chainVars, inputVars, tx>>

registerUserProxy(p) ==
    \/ rup_ownerOf(p)
    \/ rup_proxies(p)
    \/ rup_registerProxy(p)
    \/ rup_wait(p)
    \/ rup_proxies2(p)

\* ------------------------------------------------------------------------
\* checkProxyApproval (lines 63-101)
\* ------------------------------------------------------------------------

\* mutant of cpa_isApprovedForAll: a null operator is read like any other
\* address
cpa_isApprovedForAll_nullok(p) ==
    /\ pc[p] = "cpa_isApprovedForAll"
    /\ \E ok \in BOOLEAN :
          LET userProxy == local[p].userProxy
              isApproved ==
                  <<Sender(p), toLowerCase(userProxy)>> \in isApprovedForAll
              loc == [local[p] EXCEPT !.approvedForAll =
                          IF isApproved THEN "true" ELSE "false"]
          IN  /\ Called(p, "isApprovedForAll", ~ok)
              /\ IF ~ok
                 THEN checkProxyApprovalReturns(p, local[p], FALSE)
                 ELSE IF isApproved
                      THEN checkProxyApprovalReturns(p, loc, TRUE)
                      ELSE Goto(p, "cpa_getApproved", loc, "pending")
    /\ UNCHANGED <<chainVars, inputVars, tx>>

\* lines 70-76: isApprovedForAll(signerAddress, userProxy).  ethers rejects
\* a null address argument before anything is sent, which the catch of
\* line 97 turns into false.
cpa_isApprovedForAll(p) ==
    /\ pc[p] = "cpa_isApprovedForAll"
    /\ \E ok \in BOOLEAN :
          LET userProxy == local[p].userProxy
              threw == ~ok \/ userProxy = Null
              isApproved ==
                  <<Sender(p), toLowerCase(userProxy)>> \in isApprovedForAll
              loc == [local[p] EXCEPT !.approvedForAll =
                          IF isApproved THEN "true" ELSE "false"]
          IN  /\ Called(p, "isApprovedForAll", ~ok)
              /\ IF threw
                 THEN checkProxyApprovalReturns(p, local[p], FALSE)
                 ELSE IF isApproved
                      THEN checkProxyApprovalReturns(p, loc, TRUE)
                      ELSE Goto(p, "cpa_getApproved", loc, "pending")
    /\ UNCHANGED <<chainVars, inputVars, tx>>

\* lines 77-85: getApproved(tokenId) and the comparison of line 80
cpa_getApproved(p) ==
    /\ pc[p] = "cpa_getApproved"
    /\ \E ok \in BOOLEAN :
          LET t == query[p].tokenId
              threw == ~ok \/ t \notin Tokens
              approvedAddress == getAddress(getApproved[t])
              loc == [local[p] EXCEPT !.approvedAddress = approvedAddress]
          IN  /\ Called(p, "getApproved", ~ok)
              /\ IF threw
                 THEN checkProxyApprovalReturns(p, local[p], FALSE)
                 ELSE IF tokenApproved(approvedAddress, signer[p],
                                       local[p].userProxy)
                      THEN checkProxyApprovalReturns(p, loc, TRUE)
                      ELSE Goto(p, "cpa_setApprovalForAll", loc, "pending")
    /\ UNCHANGED <<chainVars, inputVars, tx>>

\* mutant of cpa_setApprovalForAll: true is returned without the wait of
\* line 93
cpa_setApprovalForAll_nowait(p) ==
    /\ pc[p] = "cpa_setApprovalForAll"
    /\ \E ok \in BOOLEAN :
          /\ Called(p, "setApprovalForAll", ~ok)
          /\ IF ok
             THEN /\ tx' = [tx EXCEPT ![p].setApprovalForAll = "pending"]
                  /\ checkProxyApprovalReturns(p, local[p], TRUE)
             ELSE /\ UNCHANGED tx
                  /\ checkProxyApprovalReturns(p, local[p], FALSE)
    /\ UNCHANGED <<chainVars, inputVars>>

\* lines 88-90: setApprovalForAll(userProxy, true) is submitted, or throws
cpa_setApprovalForAll(p) ==
    /\ pc[p] = "cpa_setApprovalForAll"
    /\ \E ok \in BOOLEAN :
          /\ Called(p, "setApprovalForAll", ~ok)
          /\ IF ok
             THEN /\ tx' = [tx EXCEPT ![p].setApprovalForAll = "pending"]
                  /\ Goto(p, "cpa_wait", local[p], "pending")
             ELSE /\ UNCHANGED tx
                  /\ checkProxyApprovalReturns(p, local[p], FALSE)
    /\ UNCHANGED <<chainVars, inputVars>>

\* mutant of cpa_wait: a failed approval undoes the proxy registration
cpa_wait_rollback(p) ==
    /\ pc[p] = "cpa_wait"
    /\ \/ /\ isApprovedForAll' = isApprovedForAll \cup
                 {<<Sender(p), toLowerCase(local[p].userProxy)>>}
          /\ tx' = [tx EXCEPT ![p].setApprovalForAll = "mined"]
          /\ checkProxyApprovalReturns(p, local[p], TRUE)
          /\ UNCHANGED <<faults, proxies>>
       \/ /\ UNCHANGED isApprovedForAll
          /\ proxies' = [proxies EXCEPT ![Sender(p)] = AddressZero]
          /\ tx' = [tx EXCEPT ![p].setApprovalForAll = "failed"]
          /\ checkProxyApprovalReturns(p, local[p], FALSE)
          /\ faults' = [faults EXCEPT ![p] = @ + 1]
    /\ UNCHANGED <<ownerOf, getApproved, inputVars, trace>>

\* lines 93-95: wait(); the mined transaction records the blanket approval
cpa_wait(p) ==
    /\ pc[p] = "cpa_wait"
    /\ \/ /\ isApprovedForAll' = isApprovedForAll \cup
                 {<<Sender(p), toLowerCase(local[p].userProxy)>>}
          /\ tx' = [tx EXCEPT ![p].setApprovalForAll = "mined"]
          /\ checkProxyApprovalReturns(p, local[p], TRUE)
          /\ UNCHANGED faults
       \/ /\ UNCHANGED isApprovedForAll
          /\ tx' = [tx EXCEPT ![p].setApprovalForAll = "failed"]
          /\ checkProxyApprovalReturns(p, local[p], FALSE)
          /\ faults' = [faults EXCEPT ![p] = @ + 1]
    /\ UNCHANGED <<ownerOf, getApproved, proxies, inputVars, trace>>

checkProxyApproval(p) ==
    \/ cpa_isApprovedForAll(p)
    \/ cpa_getApproved(p)
    \/ cpa_setApprovalForAll(p)
    \/ cpa_wait(p)

\* lines 141-185: registerUserProxy, then checkProxyApproval
isProxyApproved(p) == registerUserProxy(p) \/ checkProxyApproval(p)

\* ------------------------------------------------------------------------
\* getMatchingOrders (lines 103-139)
\* ------------------------------------------------------------------------

\* the fetch, res.json() or the SDK threw
fetchThrew(outcome) == outcome \in {"netfail", "badjson", "sdkfail"}

\* lines 111-138 and 216-230: GET /orders/fill, res.json(), the params
\* test, the SDK orders; null (catch of line 135) makes acceptOffer
\* return false
gmo_fetch(p) ==
    /\ pc[p] = "gmo_fetch"
    /\ \E outcome \in FetchOutcomes :
          LET null == fetchThrew(outcome) \/ missingParams(outcome)
              loc == [local[p] EXCEPT !.fill = outcome,
                          !.orders = IF null THEN Null ELSE "orders"]
          IN  /\ Called(p, "GET /orders/fill", fetchThrew(outcome))
              /\ IF null
                 THEN Goto(p, "done", loc, "false")
                 ELSE Goto(p, "ao_match", loc, "pending")
    /\ UNCHANGED <<chainVars, inputVars, tx>>

getMatchingOrders(p) == gmo_fetch(p)

\* ------------------------------------------------------------------------
\* acceptOffer (lines 196-237)
\* ------------------------------------------------------------------------

\* an account outside the signers of the model that made the buy order
Buyer == "buyer"

\* the accounts that may have made the buy order a call fills
Buyers(p) == {Buyer} \cup (Accounts \ {Sender(p)})

\* lines 202-213: the argument test, then isProxyApproved is entered
ao_start(p) ==
    /\ pc[p] = "start"
    /\ op[p] = "acceptOffer"
    /\ IF acceptOfferInvalid(p)
       THEN Goto(p, "done", local[p], "thrown")
       ELSE Goto(p, "rup_ownerOf", local[p], "pending")
    /\ UNCHANGED <<chainVars, inputVars, tx, trace, faults>>

\* line 223: exchange.match(signer, buyOrder, sellOrder) is submitted, or
\* throws into the catch of line 233
ao_match(p) ==
    /\ pc[p] = "ao_match"
    /\ \E ok \in BOOLEAN :
          /\ Called(p, "match", ~ok)
          /\ IF ok
             THEN /\ tx' = [tx EXCEPT ![p].match = "pending"]
                  /\ Goto(p, "ao_wait", local[p], "pending")
             ELSE /\ UNCHANGED tx
                  /\ Goto(p, "done", local[p], "false")
    /\ UNCHANGED <<chainVars, inputVars>>

\* lines 226-228: wait().  A mined match moves the token from the seller
\* to the buyer, which clears the token's approval; the exchange cannot
\* move a token the seller does not hold.
ao_wait(p) ==
    /\ pc[p] = "ao_wait"
    /\ \/ /\ ownerOf[query[p].tokenId] = Sender(p)
          /\ \E buyer \in Buyers(p) :
                ownerOf' = [ownerOf EXCEPT ![query[p].tokenId] = buyer]
          /\ getApproved' =
                 [getApproved EXCEPT ![query[p].tokenId] = AddressZero]
          /\ tx' = [tx EXCEPT ![p].match = "mined"]
          /\ Goto(p, "done", local[p], "true")
          /\ UNCHANGED faults
       \/ /\ UNCHANGED <<ownerOf, getApproved>>
          /\ tx' = [tx EXCEPT ![p].match = "failed"]
          /\ Goto(p, "done", local[p], "false")
          /\ faults' = [faults EXCEPT ![p] =
                 IF ownerOf[query[p].tokenId] = Sender(p) THEN @ + 1 ELSE @]
    /\ UNCHANGED <<isApprovedForAll, proxies, inputVars, trace>>

acceptOffer(p) == ao_start(p) \/ ao_match(p) \/ ao_wait(p)

\* ------------------------------------------------------------------------
\* listTokenForSell (lines 239-305)
\* ------------------------------------------------------------------------

\* lines 245-256: the argument test, then isProxyApproved is entered
lts_start(p) ==
    /\ pc[p] = "start"
    /\ op[p] = "listTokenForSell"
    /\ IF listTokenForSellInvalid(p)
       THEN Goto(p, "done", local[p], "undefined")
       ELSE Goto(p, "rup_ownerOf", local[p], "pending")
    /\ UNCHANGED <<chainVars, inputVars, tx, trace, faults>>

\* lines 260-274: GET /orders/build, res.json(), the params test, the SDK
\* order; every throw reaches the catch of line 301
lts_build(p) ==
    /\ pc[p] = "lts_build"
    /\ \E outcome \in FetchOutcomes :
          LET loc == [local[p] EXCEPT !.build = outcome]
          IN  /\ Called(p, "GET /orders/build", fetchThrew(outcome))
              /\ IF fetchThrew(outcome) \/ missingParams(outcome)
                 THEN Goto(p, "done", loc, "false")
                 ELSE Goto(p, "lts_sign", loc, "pending")
    /\ UNCHANGED <<chainVars, inputVars, tx>>

\* mutant of lts_sign: a failed signing is swallowed and the order is
\* posted all the same
lts_sign_swallow(p) ==
    /\ pc[p] = "lts_sign"
    /\ \E ok \in BOOLEAN :
          /\ Called(p, "sign", ~ok)
          /\ Goto(p, "lts_post", [local[p] EXCEPT !.signed = ok], "pending")
    /\ UNCHANGED <<chainVars, inputVars, tx>>

\* line 277: sellOrder.sign(signer)
lts_sign(p) ==
    /\ pc[p] = "lts_sign"
    /\ \E ok \in BOOLEAN :
          /\ Called(p, "sign", ~ok)
          /\ IF ok
             THEN Goto(p, "lts_post", [local[p] EXCEPT !.signed = TRUE],
                       "pending")
             ELSE Goto(p, "done", local[p], "false")
    /\ UNCHANGED <<chainVars, inputVars, tx>>

\* line 291: sellOrder.params, which carry the signature once signed
orderParams(isSigned) ==
    IF isSigned THEN "signed params" ELSE "unsigned params"

\* lines 280-297: POST /orders with the body {orders: [{kind, data}]}; the
\* response is not looked at
lts_post(p) ==
    /\ pc[p] = "lts_post"
    /\ \E outcome \in PostOutcomes :
          LET loc == [local[p] EXCEPT !.post = outcome,
                          !.posted = <<"wyvern-v2",
                                       orderParams(local[p].signed)>>]
          IN  /\ Called(p, "POST /orders", outcome = "netfail")
              /\ IF outcome = "netfail"
                 THEN Goto(p, "done", loc, "false")
                 ELSE Goto(p, "done", loc, "true")
    /\ UNCHANGED <<chainVars, inputVars, tx>>

listTokenForSell(p) ==
    lts_start(p) \/ lts_build(p) \/ lts_sign(p) \/ lts_post(p)

\* ------------------------------------------------------------------------
\* Specifications
\* ------------------------------------------------------------------------

Next ==
    \E p \in Calls :
        \/ acceptOffer(p)
        \/ listTokenForSell(p)
        \/ isProxyApproved(p)
        \/ getMatchingOrders(p)

\* one call of either operation, with any arguments, on any chain state
Spec == Init /\ [][Next]_vars

\* the steps of one call
Step(p) ==
    \/ acceptOffer(p)
    \/ listTokenForSell(p)
    \/ isProxyApproved(p)
    \/ getMatchingOrders(p)

\* Every await of a call settles: the event loop resumes the call, every
\* submitted transaction is eventually mined or fails, every HTTP request
\* eventually answers or fails.
SpecFair == Spec /\ \A p \in Calls : WF_vars(Step(p))

\* Two concurrent calls that both pass the argument test.  The accounts
\* are interchangeable, so call "a" is made by s1 (in lower case) and call
\* "b" by s1 or s2; a token neither call names is read and written by
\* neither, so it starts in one state only.
InitConcurrent ==
    /\ InitChain
    /\ InitCalls(Calls)
    /\ \A p \in Calls : PassesArgumentTest(p)
    /\ signer["a"] = "s1"
    /\ signer["b"] \in {"S1", "S2"}
    /\ \A t \in Tokens \ {query[p].tokenId : p \in Calls} :
          ownerOf[t] = "s1" /\ getApproved[t] = AddressZero

\* The calls interleave at every await.  The node, the wallet and the API
\* do not fail here (Spec covers their failures for one call); a
\* transaction the chain state makes revert still fails.
NoFault(step) == step /\ faults' = faults

NextConcurrent ==
    \E p \in Calls :
        \/ NoFault(ao_start(p))
        \/ NoFault(lts_start(p))
        \/ NoFault(rup_ownerOf(p))
        \/ NoFault(rup_proxies(p))
        \/ NoFault(rup_registerProxy(p))
        \/ NoFault(rup_wait(p))
        \/ NoFault(rup_proxies2(p))
        \/ NoFault(cpa_isApprovedForAll(p))
        \/ NoFault(cpa_getApproved(p))
        \/ NoFault(cpa_setApprovalForAll(p))
        \/ NoFault(cpa_wait(p))
        \/ NoFault(gmo_fetch(p))
        \/ NoFault(ao_match(p))
        \/ NoFault(ao_wait(p))
        \/ NoFault(lts_build(p))
        \/ NoFault(lts_sign(p))
        \/ NoFault(lts_post(p))

SpecConcurrent == InitConcurrent /\ [][NextConcurrent]_vars

\* ------------------------------------------------------------------------
\* Vocabulary of the properties
\* ------------------------------------------------------------------------

\* number of times the call attempted the external call `name`
Count(p, name) ==
    Cardinality({i \in DOMAIN trace[p] : trace[p][i] = name})

IsWrite(name) == name \in {"registerProxy", "setApprovalForAll", "match"}

\* the transactions the call attempted to submit, in order
Writes(p) == SelectSeq(trace[p], IsWrite)

\* the call is over: control is back at its caller
Over(p) == pc[p] = "done"

\* on chain, the collection has approved the proxy registered for the
\* call's signer, for all tokens or for the call's token
ApprovalHolds(p) ==
    LET s == Sender(p)
        t == query[p].tokenId
    IN  /\ s \in Accounts
        /\ proxies[s] # AddressZero
        /\ \/ <<s, proxies[s]>> \in isApprovedForAll
           \/ t \in Tokens /\ getApproved[t] = proxies[s]

\* on chain, the call's signer owns the call's token
OwnsToken(p) ==
    /\ query[p].tokenId \in Tokens
    /\ ownerOf[query[p].tokenId] = Sender(p)

\* ------------------------------------------------------------------------
\* Properties
\* ------------------------------------------------------------------------

\* C1: acceptOffer called without a signer or without query.contract is
\* over after its first step and has attempted no chain call and no HTTP
\* request.
C1_InvalidAcceptOfferCallsNothing ==
    \A p \in Calls :
        (op[p] = "acceptOffer" /\ pc[p] # "off"
            /\ (signer[p] = Undefined \/ query[p].contract = Undefined))
        => (pc[p] \in {"start", "done"} /\ trace[p] = <<>>
            /\ tx[p] = NoTx)

C1_Witness ==
    \E p \in Calls :
        /\ op[p] = "acceptOffer" /\ Over(p)
        /\ signer[p] = Undefined /\ query[p].contract = Collection
        /\ trace[p] = <<>>

\* C2: no call of acceptOffer or listTokenForSell ends by throwing: every
\* call that is over has returned a sentinel value.
C2_NeverThrows ==
    \A p \in Calls :
        Over(p) => result[p] \in {"true", "false", "undefined"}

\* C3: (the "only if" half of the claim) when the proxy-approval check
\* has just returned true to the top-level operation, the collection holds
\* blanket or token-specific approval for the signer's proxy.
C3_TrueOnlyIfApproved ==
    \A p \in Calls :
        (pc[p] \in {"gmo_fetch", "lts_build"}
            /\ local[p].proxyApproved = "true")
        => ApprovalHolds(p)

\* C4: a call attempts at most one registerProxy submission, and only
\* after its own read of proxies(signerAddress) returned the zero address.
C4_RegisterAtMostOnce ==
    \A p \in Calls :
        /\ Count(p, "registerProxy") <= 1
        /\ (Count(p, "registerProxy") = 1 \/ tx[p].registerProxy # "none")
            => local[p].proxy0 = AddressZero

C4_Witness ==
    \E p \in Calls :
        /\ Count(p, "registerProxy") = 1
        /\ tx[p].registerProxy = "mined"
        /\ local[p].userProxy = getAddress(ProxyOf(Sender(p)))

\* C5: while a match transaction has just been submitted (acceptOffer) or
\* an order has just been signed (listTokenForSell), the signer owns the
\* token on chain and the collection holds approval for the signer's proxy.
C5_SubmitOnlyIfOwnerAndApproved ==
    \A p \in Calls :
        (pc[p] \in {"ao_wait", "lts_post"})
        => (OwnsToken(p) /\ ApprovalHolds(p))

\* the scenario of C6: the signer owned the token, had no proxy and the
\* collection recorded no approval; no external call threw and the fill
\* response had its params
EndToEndScenario(p) ==
    LET s == Sender(p)
        t == query[p].tokenId
    IN  /\ op[p] = "acceptOffer"
        /\ s \in Accounts /\ t \in Tokens
        /\ query[p].contract = Collection
        /\ chain0.ownerOf[t] = s
        /\ chain0.proxies[s] = AddressZero
        /\ chain0.getApproved[t] = AddressZero
        /\ \A o \in {"p1", "p2"} : <<s, o>> \notin chain0.isApprovedForAll
        /\ faults[p] = 0
        /\ local[p].fill # "noparams"

\* C6: in the end-to-end scenario a finished acceptOffer call has
\* submitted exactly registerProxy, setApprovalForAll and match, in that
\* order, all three are mined, and it returned true.
C6_EndToEnd ==
    \A p \in Calls :
        (EndToEndScenario(p) /\ Over(p))
        => /\ result[p] = "true"
           /\ Writes(p) = <<"registerProxy", "setApprovalForAll", "match">>
           /\ tx[p] = [registerProxy |-> "mined",
                       setApprovalForAll |-> "mined", match |-> "mined"]

C6_Witness ==
    \E p \in Calls :
        /\ EndToEndScenario(p) /\ Over(p)
        /\ result[p] = "true"
        /\ Count(p, "match") = 1

\* C7: when the /orders/fill response has no order.params, acceptOffer is
\* over with false (it did not throw) and has submitted no match.
C7_MissingParamsReturnsFalse ==
    \A p \in Calls :
        (op[p] = "acceptOffer" /\ local[p].fill = "noparams")
        => /\ Over(p) /\ result[p] = "false"
           /\ Count(p, "match") = 0 /\ tx[p].match = "none"

C7_Witness ==
    \E p \in Calls :
        /\ op[p] = "acceptOffer" /\ local[p].fill = "noparams"
        /\ local[p].proxyApproved = "true" /\ result[p] = "false"

\* C8: when the proxy-approval check returned false, listTokenForSell is
\* over with false (it did not throw) and has made no GET /orders/build,
\* no signing and no POST /orders.
C8_ListDeniedReturnsFalse ==
    \A p \in Calls :
        (op[p] = "listTokenForSell" /\ local[p].proxyApproved = "false")
        => /\ Over(p) /\ result[p] = "false"
           /\ Count(p, "GET /orders/build") = 0
           /\ Count(p, "sign") = 0 /\ ~local[p].signed
           /\ Count(p, "POST /orders") = 0

C8_Witness ==
    \E p \in Calls :
        /\ op[p] = "listTokenForSell" /\ local[p].proxyApproved = "false"
        /\ local[p].userProxy # Null
        /\ result[p] = "false"

\* the owner the call read differs from the signer's address whatever the
\* casing of the two
ReadOtherOwner(p) ==
    /\ local[p].owner # "none"
    /\ toLowerCase(local[p].owner) # toLowerCase(signer[p])

\* C9: once ownerOf(tokenId) has been read and is not the signer's
\* address, registerUserProxy yields null, the check never returns true,
\* and the call ends with false, not with an exception.
C9_NotOwnerFails ==
    \A p \in Calls :
        ReadOtherOwner(p)
        => /\ local[p].userProxy = Null
           /\ local[p].proxyApproved # "true"
           /\ result[p] \in {"pending", "false"}
           /\ Over(p) => (local[p].proxyApproved = "false"
                            /\ result[p] = "false")

C9_Witness ==
    \E p \in Calls :
        /\ ReadOtherOwner(p) /\ Over(p)
        /\ local[p].userProxy = Null /\ result[p] = "false"

\* C10: listTokenForSell called without a signer, query.tokenId or
\* query.contract returns undefined at its first step: it does not throw
\* and attempts no chain call and no HTTP request.
C10_InvalidListReturnsEarly ==
    \A p \in Calls :
        (op[p] = "listTokenForSell"
            /\ (signer[p] = Undefined \/ query[p].tokenId = Undefined
                  \/ query[p].contract = Undefined))
        => /\ pc[p] \in {"start", "done"}
           /\ Over(p) => result[p] = "undefined"
           /\ trace[p] = <<>> /\ tx[p] = NoTx

C10_Witness ==
    \E p \in Calls :
        /\ op[p] = "listTokenForSell" /\ Over(p)
        /\ query[p].tokenId = Undefined /\ signer[p] # Undefined
        /\ result[p] = "undefined"

\* ------------------------------------------------------------------------
\* The state machine of a top-level call
\* ------------------------------------------------------------------------

\* program order of the positions of a call
Rank(pos) ==
    CASE pos = "off" -> 0
      [] pos = "start" -> 1
      [] pos = "rup_ownerOf" -> 2
      [] pos = "rup_proxies" -> 3
      [] pos = "rup_registerProxy" -> 4
      [] pos = "rup_wait" -> 5
      [] pos = "rup_proxies2" -> 6
      [] pos = "cpa_isApprovedForAll" -> 7
      [] pos = "cpa_getApproved" -> 8
      [] pos = "cpa_setApprovalForAll" -> 9
      [] pos = "cpa_wait" -> 10
      [] pos \in {"gmo_fetch", "lts_build"} -> 11
      [] pos \in {"ao_match", "lts_sign"} -> 12
      [] pos \in {"ao_wait", "lts_post"} -> 13
      [] pos = "done" -> 14

\* the state of the specification's state machine a position belongs to
Phase(pos) ==
    CASE pos \in {"off", "start"} -> "Idle"
      [] pos \in {"gmo_fetch", "lts_build"} -> "FetchingOrder"
      [] pos \in {"ao_match", "ao_wait", "lts_sign", "lts_post"}
            -> "Executing"
      [] pos = "done" -> "Terminal"
      [] OTHER -> "CheckingApproval"

PhaseRank(ph) ==
    CASE ph = "Idle" -> 0
      [] ph = "CheckingApproval" -> 1
      [] ph = "FetchingOrder" -> 2
      [] ph = "Executing" -> 3
      [] ph = "Terminal" -> 4

\* the call passed the argument test of its operation
PassedArguments(p) ==
    /\ signer[p] # Undefined
    /\ query[p].contract # Undefined
    /\ op[p] = "listTokenForSell" => query[p].tokenId # Undefined

\* outcome of the order fetch of the call's operation
Fetched(p) ==
    IF op[p] = "acceptOffer" THEN local[p].fill ELSE local[p].build

FetchCalls(p) == Count(p, "GET /orders/fill") + Count(p, "GET /orders/build")

ExecuteCalls(p) ==
    Count(p, "match") + Count(p, "sign") + Count(p, "POST /orders")

ApprovalDenied(p) ==
    /\ local[p].proxyApproved = "false" /\ result[p] = "false"
    /\ FetchCalls(p) = 0 /\ ExecuteCalls(p) = 0

FetchFailed(p) ==
    /\ local[p].proxyApproved = "true" /\ result[p] = "false"
    /\ Fetched(p) \in FetchOutcomes \ {"ok"}
    /\ ExecuteCalls(p) = 0

ExecutionFailed(p) ==
    /\ local[p].proxyApproved = "true" /\ result[p] = "false"
    /\ Fetched(p) = "ok" /\ ExecuteCalls(p) >= 1

Success(p) ==
    /\ local[p].proxyApproved = "true" /\ result[p] = "true"
    /\ Fetched(p) = "ok" /\ ExecuteCalls(p) >= 1

\* the names of the external calls of the source
CallNames ==
    {"ownerOf", "proxies", "registerProxy", "isApprovedForAll",
     "getApproved", "setApprovalForAll", "GET /orders/fill", "match",
     "GET /orders/build", "sign", "POST /orders"}

\* every statement ran at most once: proxies is read at lines 33 and 47
RanAtMostOnce(p) ==
    \A name \in CallNames :
        Count(p, name) <= (IF name = "proxies" THEN 2 ELSE 1)

\* a finished call that passed the argument test is in exactly one of the
\* four terminal states
OneTerminalState(p) ==
    Cardinality({k \in 1..4 :
        \/ k = 1 /\ ApprovalDenied(p)
        \/ k = 2 /\ FetchFailed(p)
        \/ k = 3 /\ ExecutionFailed(p)
        \/ k = 4 /\ Success(p)}) = 1

\* C11: a call only moves forward through Idle, CheckingApproval,
\* FetchingOrder, Executing (every step changes its position to a later one
\* in program order, a finished call never moves again), runs no statement
\* twice, and a call that passed the argument test ends in exactly one of
\* ApprovalDenied, FetchFailed, ExecutionFailed (false) and Success (true).
C11_StrictlyForward ==
    /\ [](\A p \in Calls :
            /\ RanAtMostOnce(p)
            /\ (Over(p) /\ PassedArguments(p)) => OneTerminalState(p))
    /\ [][\A p \in Calls :
            /\ pc'[p] # pc[p] =>
                  /\ Rank(pc'[p]) > Rank(pc[p])
                  /\ PhaseRank(Phase(pc'[p])) >= PhaseRank(Phase(pc[p]))
            /\ Over(p) => (pc'[p] = pc[p] /\ result'[p] = result[p]
                             /\ trace'[p] = trace[p])]_vars

C11_Witness ==
    \E p \in Calls :
        /\ Over(p) /\ ExecutionFailed(p)
        /\ op[p] = "listTokenForSell"
        /\ Count(p, "proxies") = 2

\* ------------------------------------------------------------------------
\* Concurrent calls
\* ------------------------------------------------------------------------

\* two different calls made by the same account
SameSigner(p, q) == p # q /\ Sender(p) = Sender(q)

\* the call has submitted a registerProxy transaction
Registering(p) == tx[p].registerProxy # "none"

\* C12: two concurrent calls of one signer can both submit registerProxy
\* (C12_Witness: both registrations are pending at once).  Whenever both
\* have submitted one, each had itself read proxies(signer) = 0 before, and
\* the registry mines at most one of the two.
C12_RegistrationRace ==
    \A p \in Calls : \A q \in Calls :
        (SameSigner(p, q) /\ Registering(p) /\ Registering(q))
        => /\ local[p].proxy0 = AddressZero
           /\ local[q].proxy0 = AddressZero
           /\ ~(tx[p].registerProxy = "mined"
                  /\ tx[q].registerProxy = "mined")

C12_Witness ==
    \E p \in Calls : \E q \in Calls :
        /\ SameSigner(p, q)
        /\ tx[p].registerProxy = "pending"
        /\ tx[q].registerProxy = "pending"
        /\ Count(p, "registerProxy") = 1 /\ Count(q, "registerProxy") = 1
        /\ proxies[Sender(p)] = AddressZero

\* What a call does when it runs alone from the initial chain state and
\* nothing fails, computed from its arguments, chain0 and the response its
\* order fetch got.
SoloOwner(p) == chain0.ownerOf[query[p].tokenId] = Sender(p)

SoloRegisters(p) == chain0.proxies[Sender(p)] = AddressZero

SoloApproved(p) ==
    \/ <<Sender(p), ProxyOf(Sender(p))>> \in chain0.isApprovedForAll
    \/ chain0.getApproved[query[p].tokenId] = Sender(p)

SoloProxyApproved(p) == IF SoloOwner(p) THEN "true" ELSE "false"

SoloWrites(p) ==
    IF ~SoloOwner(p)
    THEN <<>>
    ELSE (IF SoloRegisters(p) THEN <<"registerProxy">> ELSE <<>>)
         \o (IF SoloApproved(p) THEN <<>> ELSE <<"setApprovalForAll">>)
         \o (IF op[p] = "acceptOffer" /\ Fetched(p) = "ok"
             THEN <<"match">> ELSE <<>>)

SoloResult(p) ==
    IF SoloOwner(p) /\ Fetched(p) = "ok" THEN "true" ELSE "false"

\* the finished call submitted the transactions and returned the result of
\* its run alone
AsAlone(p) ==
    /\ local[p].proxyApproved = SoloProxyApproved(p)
    /\ Writes(p) = SoloWrites(p)
    /\ result[p] = SoloResult(p)

\* C13 as stated: a finished call whose signer or whose token differs from
\* the other call's has submitted the transactions and returned the result
\* of its run alone.
C13_IndependentIfSignerOrTokenDiffers ==
    \A p \in Calls : \A q \in Calls \ {p} :
        (Over(p) /\ (Sender(p) # Sender(q)
                       \/ query[p].tokenId # query[q].tokenId))
        => AsAlone(p)

\* C13 as amended: a finished call whose signer and whose token both
\* differ from the other call's has submitted the transactions and
\* returned the result of its run alone, under every interleaving.
C13_IndependentIfSignerAndTokenDiffer ==
    \A p \in Calls : \A q \in Calls \ {p} :
        (Over(p) /\ Sender(p) # Sender(q)
                 /\ query[p].tokenId # query[q].tokenId)
        => AsAlone(p)

C13_Witness ==
    /\ Sender("a") # Sender("b")
    /\ query["a"].tokenId # query["b"].tokenId
    /\ \A p \in Calls :
          /\ Over(p) /\ AsAlone(p) /\ result[p] = "true"
          /\ Writes(p) = <<"registerProxy", "setApprovalForAll", "match">>

\* ------------------------------------------------------------------------
\* Waiting
\* ------------------------------------------------------------------------

\* the transaction a position waits for
WaitsFor(pos) ==
    CASE pos = "rup_wait" -> "registerProxy"
      [] pos = "cpa_wait" -> "setApprovalForAll"
      [] pos = "ao_wait" -> "match"
      [] OTHER -> "none"

\* the call is blocked in wait() of a submitted transaction
Waiting(p) == WaitsFor(pc[p]) # "none"

\* C14: there is no timeout.  A call blocked in wait() holds a pending
\* transaction and leaves the wait only in a step in which that
\* transaction gets mined or fails; when every await settles, every call
\* that was started eventually returns.
C14_NoTimeout ==
    /\ [](\A p \in Calls :
            Waiting(p) => tx[p][WaitsFor(pc[p])] = "pending")
    /\ [][\A p \in Calls :
            (Waiting(p) /\ pc'[p] # pc[p])
            => tx'[p][WaitsFor(pc[p])] \in {"mined", "failed"}]_vars
    /\ \A p \in Calls : [](pc[p] = "start" => <>Over(p))

C14_Witness ==
    \E p \in Calls :
        /\ pc[p] = "ao_wait" /\ tx[p].match = "pending"
        /\ tx[p].registerProxy = "mined"
        /\ tx[p].setApprovalForAll = "mined"

\* ------------------------------------------------------------------------
\* The approval transaction
\* ------------------------------------------------------------------------

\* on chain, the proxy the check was given holds blanket approval of the
\* signer or approval of the call's token
GivenProxyApproved(p) ==
    LET proxy == toLowerCase(local[p].userProxy)
    IN  \/ <<Sender(p), proxy>> \in isApprovedForAll
        \/ /\ query[p].tokenId \in Tokens
           /\ getApproved[query[p].tokenId] = proxy

\* C15: the check is about to submit setApprovalForAll only when the proxy
\* holds neither approval, and when it has returned true without
\* attempting setApprovalForAll the proxy holds one of the two.
C15_ApprovalTxExactlyWhenUnapproved ==
    \A p \in Calls :
        /\ pc[p] = "cpa_setApprovalForAll" => ~GivenProxyApproved(p)
        /\ (pc[p] \in {"gmo_fetch", "lts_build"}
               /\ local[p].proxyApproved = "true"
               /\ Count(p, "setApprovalForAll") = 0)
           => GivenProxyApproved(p)

\* ------------------------------------------------------------------------
\* Order of the steps of one call
\* ------------------------------------------------------------------------

\* the transaction was not submitted or is mined
Settled(status) == status \in {"none", "mined"}

\* C16: within a call, setApprovalForAll is attempted only while the
\* call's registerProxy is mined (or was not needed), the order fetch only
\* after the approval check returned true, the match only after the
\* call's registration and approval transactions are mined and the
\* /orders/fill response with its params has arrived, and acceptOffer
\* has returned true only when its match is mined.
C16_EachStepWaits ==
    \A p \in Calls :
        /\ Count(p, "setApprovalForAll") >= 1
              => Settled(tx[p].registerProxy)
        /\ FetchCalls(p) >= 1 =>
              /\ local[p].proxyApproved = "true"
              /\ Settled(tx[p].registerProxy)
              /\ Settled(tx[p].setApprovalForAll)
        /\ Count(p, "match") >= 1 =>
              /\ Settled(tx[p].registerProxy)
              /\ Settled(tx[p].setApprovalForAll)
              /\ local[p].fill = "ok" /\ local[p].orders = "orders"
        /\ (op[p] = "acceptOffer" /\ result[p] = "true")
              => tx[p].match = "mined"

C16_Witness ==
    \E p \in Calls :
        /\ op[p] = "acceptOffer" /\ result[p] = "true"
        /\ tx[p].registerProxy = "none"
        /\ tx[p].setApprovalForAll = "mined"
        /\ tx[p].match = "mined"

\* ------------------------------------------------------------------------
\* Listing
\* ------------------------------------------------------------------------

\* the last n external calls of the call
LastCalls(p, n) ==
    IF Len(trace[p]) < n
    THEN <<>>
    ELSE SubSeq(trace[p], Len(trace[p]) - n + 1, Len(trace[p]))

\* C17: a listTokenForSell call that returned true ended with GET
\* /orders/build, the signing and POST /orders, each made once and in
\* this order after an approval check that returned true; the build
\* response had its params and the POST carried the signed order's params
\* with kind 'wyvern-v2'.  When the build request throws or has no params,
\* or the signing throws, the call returned false without a later step;
\* when the POST throws it returned false.
C17_ListSequence ==
    \A p \in Calls :
        op[p] = "listTokenForSell" =>
            /\ result[p] = "true" =>
                  /\ local[p].proxyApproved = "true"
                  /\ local[p].build = "ok"
                  /\ local[p].signed
                  /\ LastCalls(p, 3) =
                        <<"GET /orders/build", "sign", "POST /orders">>
                  /\ Count(p, "GET /orders/build") = 1
                  /\ Count(p, "sign") = 1
                  /\ Count(p, "POST /orders") = 1
                  /\ local[p].posted = <<"wyvern-v2", "signed params">>
            /\ local[p].build \in FetchOutcomes \ {"ok"} =>
                  /\ Over(p) /\ result[p] = "false"
                  /\ Count(p, "sign") = 0 /\ Count(p, "POST /orders") = 0
            /\ (Count(p, "sign") = 1 /\ ~local[p].signed) =>
                  /\ Over(p) /\ result[p] = "false"
                  /\ Count(p, "POST /orders") = 0
            /\ local[p].post = "netfail" =>
                  (Over(p) /\ result[p] = "false")

C17_Witness ==
    \E p \in Calls :
        /\ op[p] = "listTokenForSell" /\ result[p] = "true"
        /\ local[p].post = "accepted"
        /\ local[p].posted = <<"wyvern-v2", "signed params">>

\* ------------------------------------------------------------------------
\* Chain writes
\* ------------------------------------------------------------------------

\* in this step the call's pending transaction `name` gets mined
Mines(p, name) == tx[p][name] = "pending" /\ tx'[p][name] = "mined"

\* C18: the chain changes only when one of the three transactions of a
\* call is mined: a registered proxy stays registered, a blanket approval
\* stays granted, the owner of a token changes only in a mined match, and
\* getApproved is never set to an address (the transfer of a mined match
\* clears it).  A registration or approval mined during a call is in place
\* when the call is over, whatever it returned.
C18_NoRollback ==
    /\ [][/\ \A a \in Accounts :
                proxies'[a] # proxies[a] =>
                    /\ proxies[a] = AddressZero
                    /\ \E p \in Calls :
                          Sender(p) = a /\ Mines(p, "registerProxy")
          /\ isApprovedForAll \subseteq isApprovedForAll'
          /\ isApprovedForAll' # isApprovedForAll =>
                \E p \in Calls :
                    /\ Mines(p, "setApprovalForAll")
                    /\ isApprovedForAll' = isApprovedForAll \cup
                          {<<Sender(p), toLowerCase(local[p].userProxy)>>}
          /\ \A t \in Tokens :
                (ownerOf'[t] # ownerOf[t] \/ getApproved'[t] # getApproved[t])
                => /\ \E p \in Calls :
                         query[p].tokenId = t /\ Mines(p, "match")
                   /\ getApproved'[t] = AddressZero]_vars
    /\ [](\A p \in Calls :
            /\ tx[p].registerProxy = "mined"
                  => proxies[Sender(p)] = ProxyOf(Sender(p))
            /\ tx[p].setApprovalForAll = "mined"
                  => <<Sender(p), toLowerCase(local[p].userProxy)>>
                         \in isApprovedForAll)

C18_Witness ==
    \E p \in Calls :
        /\ Over(p) /\ result[p] = "false"
        /\ tx[p].registerProxy = "mined"
        /\ tx[p].setApprovalForAll = "failed"
        /\ proxies[Sender(p)] = ProxyOf(Sender(p))

\* ------------------------------------------------------------------------
\* A missing proxy
\* ------------------------------------------------------------------------

\* registerUserProxy returned null to isProxyApproved
NoProxyYielded(p) == local[p].userProxy = Null

\* C19: once registerUserProxy has returned null, the call submits no
\* setApprovalForAll and no match transaction, signs nothing and posts
\* nothing, and it ends with false.
C19_NoProxyNoWrites ==
    \A p \in Calls :
        NoProxyYielded(p) =>
            /\ Count(p, "setApprovalForAll") = 0
            /\ Count(p, "match") = 0
            /\ Count(p, "sign") = 0
            /\ Count(p, "POST /orders") = 0
            /\ tx[p].setApprovalForAll = "none"
            /\ tx[p].match = "none"
            /\ local[p].posted = <<>>
            /\ Over(p) => result[p] = "false"

C19_Witness ==
    \E p \in Calls :
        /\ Over(p) /\ NoProxyYielded(p)
        /\ Count(p, "isApprovedForAll") = 1
        /\ PassesArgumentTest(p)
        /\ ownerOf[query[p].tokenId] = Sender(p)
        /\ getApproved[query[p].tokenId] = signer[p]

\* ------------------------------------------------------------------------
\* The answer to the posted order
\* ------------------------------------------------------------------------

\* C20: listTokenForSell returns true only if the API accepted the posted
\* order; a POST /orders answered with a non-success response does not make
\* the operation report success.
C20_TrueOnlyIfAccepted ==
    \A p \in Calls :
        (op[p] = "listTokenForSell" /\ Over(p) /\ result[p] = "true")
            => local[p].post = "accepted"

====
